---- MODULE Spec2Model ----
(***************************************************************************)
(* The aesdchar driver (main.c): a character device whose write() assembles *)
(* newline-terminated commands into a ten-slot circular buffer and whose   *)
(* read() returns the bytes of the retained commands by file position.     *)
(*                                                                         *)
(* Callers are kernel threads executing aesd_read / aesd_write statement   *)
(* group by statement group; dev->lock serialises them.  The heap is       *)
(* modelled explicitly (kmalloc / kfree / memcpy) so that ownership of the *)
(* buffers is part of the state.                                           *)
(***************************************************************************)
EXTENDS Integers, Sequences, FiniteSets, TLC

(* ------------------------------------------------------------------ *)
(* Program constants                                                   *)
(* ------------------------------------------------------------------ *)

\* Number of slots of the circular buffer (aesd-circular-buffer.h).
AESDCHAR_MAX_WRITE_OPERATIONS_SUPPORTED == 10

\* '\n', the byte memchr looks for.
NL == 10

NULL == 0
EFAULT == 14
ENOMEM == 12
ERESTARTSYS == 512

(* ------------------------------------------------------------------ *)
(* Bounds of the model                                                 *)
(* ------------------------------------------------------------------ *)

\* Number of concurrent callers (open file descriptions).
NProcs == 2
\* Total number of read/write calls issued after Init.
MaxCalls == 3
\* Longest chunk a write call carries.
MaxChunk == 2
\* Largest file position / count a read call of Spec is given.
MaxOff == 2
MaxCount == 2
\* Number of injected environment failures (kmalloc failure, faulting or
\* null user buffer, signal while blocked on the mutex).
MaxFaults == 1
\* Init: the device has already taken up to MaxPre complete commands.
MaxPre == 10

Procs == 1..NProcs
Slots == 0..(AESDCHAR_MAX_WRITE_OPERATIONS_SUPPORTED - 1)

\* Value of a byte of a kmalloc'ed buffer that was never written.
Poison == 0 - 1
\* entry == NULL in aesd_read.
NoEntry == 0 - 1

(* ------------------------------------------------------------------ *)
(* Byte sequences                                                      *)
(* ------------------------------------------------------------------ *)

Min(a, b) == IF a < b THEN a ELSE b

RECURSIVE SeqsUpTo(_, _)
\* All sequences over S of length 0..n.
SeqsUpTo(S, n) ==
  IF n = 0 THEN {<<>>}
  ELSE LET R == SeqsUpTo(S, n - 1)
       IN  R \cup {Append(s, x) : s \in {r \in R : Len(r) = n - 1}, x \in S}

Take(s, n) == SubSeq(s, 1, Min(n, Len(s)))
Drop(s, n) == SubSeq(s, n + 1, Len(s))
LastN(s, n) == IF Len(s) <= n THEN s ELSE SubSeq(s, Len(s) - n + 1, Len(s))

RECURSIVE Flatten(_)
Flatten(ss) == IF ss = <<>> THEN <<>> ELSE Head(ss) \o Flatten(Tail(ss))

RECURSIVE SumSeq(_)
SumSeq(ns) == IF ns = <<>> THEN 0 ELSE Head(ns) + SumSeq(Tail(ns))

\* Index (1-based) of the first NL of s, 0 when there is none.
FirstNL(s) ==
  IF \E i \in 1..Len(s) : s[i] = NL
  THEN CHOOSE i \in 1..Len(s) : s[i] = NL /\ \A j \in 1..(i - 1) : s[j] # NL
  ELSE 0

RECURSIVE Commands(_)
\* The complete commands of a byte stream: its maximal pieces ending in NL.
Commands(s) ==
  LET i == FirstNL(s)
  IN  IF i = 0 THEN <<>> ELSE <<SubSeq(s, 1, i)>> \o Commands(Drop(s, i))

(* ------------------------------------------------------------------ *)
(* The heap: kmalloc, kfree, memcpy                                    *)
(* ------------------------------------------------------------------ *)

\* heap.mem maps each allocated address to its bytes; heap.err collects
\* the misuses (double free, use after free, overflow) that happened.
EmptyHeap == [mem |-> <<>>, err |-> {}]

Live(h, a) == a \in DOMAIN h.mem

LowestFree(h) ==
  CHOOSE a \in 1..(Cardinality(DOMAIN h.mem) + 1) :
    /\ a \notin DOMAIN h.mem
    /\ \A b \in 1..(a - 1) : b \in DOMAIN h.mem

\* kmalloc(n) that succeeds: the address returned and the heap after it.
\* Addresses carry no meaning, so the lowest free one stands for any.
Kmalloc(h, n) ==
  LET a == LowestFree(h)
  IN  [addr |-> a,
       heap |-> [h EXCEPT !.mem = [x \in DOMAIN h.mem \cup {a} |->
                                     IF x = a THEN [i \in 1..n |-> Poison]
                                     ELSE h.mem[x]]]]

Kfree(h, a) ==
  IF a = NULL THEN h
  ELSE IF Live(h, a)
       THEN [h EXCEPT !.mem = [x \in DOMAIN h.mem \ {a} |-> h.mem[x]]]
       ELSE [h EXCEPT !.err = @ \cup {"double_free"}]

\* The n bytes at a + off (Poison where the read is outside a live buffer).
Peek(h, a, off, n) ==
  [i \in 1..n |-> IF Live(h, a) /\ off + i \in 1..Len(h.mem[a])
                  THEN h.mem[a][off + i] ELSE Poison]

PeekErr(h, a, off, n) ==
  IF n = 0 THEN {}
  ELSE IF ~Live(h, a) THEN {"use_after_free"}
  ELSE IF off + n > Len(h.mem[a]) THEN {"overflow"}
  ELSE {}

\* memcpy(dst + off, bytes, Len(bytes)).
Poke(h, dst, off, bytes) ==
  IF bytes = <<>> THEN h
  ELSE IF ~Live(h, dst) THEN [h EXCEPT !.err = @ \cup {"use_after_free"}]
  ELSE [mem |-> [h.mem EXCEPT ![dst] =
                   [i \in 1..Len(@) |->
                      IF i - off \in 1..Len(bytes) THEN bytes[i - off] ELSE @[i]]],
        err |-> IF off + Len(bytes) > Len(h.mem[dst])
                THEN h.err \cup {"overflow"} ELSE h.err]

\* memcpy(dst + doff, src + soff, n).
Memcpy(h, dst, doff, src, soff, n) ==
  LET g == Poke(h, dst, doff, Peek(h, src, soff, n))
  IN  [g EXCEPT !.err = @ \cup PeekErr(h, src, soff, n)]

(* ------------------------------------------------------------------ *)
(* The circular buffer (aesd-circular-buffer.[ch])                     *)
(* ------------------------------------------------------------------ *)

NullEntry == [buffptr |-> NULL, size |-> 0]

\* aesd_circular_buffer_init: every slot zeroed, nothing written yet.
aesd_circular_buffer_init ==
  [entry |-> [i \in Slots |-> NullEntry], in_offs |-> 0, full |-> FALSE]

\* aesd_circular_buffer_add_entry, first statement: the new entry is stored
\* at in_offs, over the oldest entry when the buffer is full.
cb_store(cb, e) == [cb EXCEPT !.entry[cb.in_offs] = e]

\* aesd_circular_buffer_add_entry, the rest: in_offs advances modulo the
\* capacity, and the buffer is full once in_offs has wrapped.
cb_advance(cb) ==
  LET nxt == (cb.in_offs + 1) % AESDCHAR_MAX_WRITE_OPERATIONS_SUPPORTED
  IN  [cb EXCEPT !.in_offs = nxt, !.full = cb.full \/ nxt = 0]

aesd_circular_buffer_add_entry(cb, e) == cb_advance(cb_store(cb, e))

\* Number of live entries and the slot of the oldest one.
NumLive(cb) ==
  IF cb.full THEN AESDCHAR_MAX_WRITE_OPERATIONS_SUPPORTED ELSE cb.in_offs
OldestSlot(cb) == IF cb.full THEN cb.in_offs ELSE 0
\* Slot of the k-th live entry, k = 1 the oldest.
SlotOf(cb, k) ==
  (OldestSlot(cb) + k - 1) % AESDCHAR_MAX_WRITE_OPERATIONS_SUPPORTED

RECURSIVE FindFrom(_, _, _)
\* The walk of aesd_circular_buffer_find_entry_offset_for_fpos from the k-th
\* live entry with char_offset bytes still to skip.
FindFrom(cb, k, char_offset) ==
  IF k > NumLive(cb) THEN [entry |-> NoEntry, entry_offset_byte |-> 0]
  ELSE LET s == SlotOf(cb, k)
       IN  IF char_offset < cb.entry[s].size
           THEN [entry |-> s, entry_offset_byte |-> char_offset]
           ELSE FindFrom(cb, k + 1, char_offset - cb.entry[s].size)

\* aesd_circular_buffer_find_entry_offset_for_fpos: the entry holding the
\* byte at char_offset of the concatenated live entries, oldest first, and
\* the offset within it; NoEntry when char_offset is past the end.
aesd_circular_buffer_find_entry_offset_for_fpos(cb, char_offset) ==
  FindFrom(cb, 1, char_offset)

(* ------------------------------------------------------------------ *)
(* State                                                               *)
(* ------------------------------------------------------------------ *)

VARIABLES
  dev,      \* struct aesd_dev: lock, partial_write_buffer, partial_write_size,
            \* circular_buffer
  heap,     \* the kmalloc heap
  t,        \* per caller: position in aesd_read / aesd_write and its locals
  hist,     \* history: the bytes each successful write accepted, in the
            \* order the writes released the lock
  ncalls,   \* history: calls issued so far
  nfaults,  \* history: environment failures injected so far
  acc       \* user side of a sequential reader: the bytes its reads returned

vars == <<dev, heap, t, hist, ncalls, nfaults, acc>>

\* The bytes of the pending (partial) command.
PendingBytes(d, h) == Peek(h, d.partial_write_buffer, 0, d.partial_write_size)

\* The bytes of the entry in slot s.
EntryBytes(d, h, s) ==
  Peek(h, d.circular_buffer.entry[s].buffptr, 0, d.circular_buffer.entry[s].size)

\* The live entries, oldest first: their bytes, and their buffers.
LiveEntries(d, h) ==
  [k \in 1..NumLive(d.circular_buffer) |->
     EntryBytes(d, h, SlotOf(d.circular_buffer, k))]
LivePtrs(d) ==
  [k \in 1..NumLive(d.circular_buffer) |->
     d.circular_buffer.entry[SlotOf(d.circular_buffer, k)].buffptr]

\* What a caller remembers of the device as it was when it took the lock.
NoSnap == [taken |-> FALSE, dev |-> <<>>, pend |-> <<>>, ents |-> <<>>,
           ptrs |-> <<>>, live |-> {}]
Snapshot(d, h) ==
  [taken |-> TRUE, dev |-> d, pend |-> PendingBytes(d, h),
   ents |-> LiveEntries(d, h), ptrs |-> LivePtrs(d), live |-> DOMAIN h.mem]

NoBuf == [kind |-> "none", data |-> <<>>]

IdleLocals ==
  [pc |-> "idle", op |-> "none", buf |-> NoBuf, count |-> 0, f_pos |-> 0,
   write_buffer |-> NULL, newline_pos |-> NULL, newline_offset |-> 0,
   total_size |-> 0, complete_buffer |-> NULL,
   new_partial_size |-> 0, new_partial_buffer |-> NULL,
   entry |-> NoEntry, entry_offset_byte |-> 0, bytes_to_read |-> 0,
   retval |-> 0, out |-> <<>>, snap |-> NoSnap]

\* The caller's state once the call has returned v: the locals are gone,
\* the arguments, what was copied out and the file position remain.
Returned(l, v) ==
  [IdleLocals EXCEPT !.pc = "ret", !.op = l.op, !.buf = l.buf,
                     !.count = l.count, !.f_pos = l.f_pos, !.out = l.out,
                     !.snap = l.snap, !.retval = v]

\* aesd_init_module: memset, aesd_circular_buffer_init, mutex_init, no
\* partial write.
aesd_init_module ==
  [lock |-> NULL, partial_write_buffer |-> NULL, partial_write_size |-> 0,
   circular_buffer |-> aesd_circular_buffer_init]

(* ------------------------------------------------------------------ *)
(* dev->lock                                                           *)
(* ------------------------------------------------------------------ *)

\* mutex_lock_interruptible takes the mutex only when nobody holds it.
MutexFree_NoExclusion(d) == TRUE
MutexFree(d) == d.lock = NULL

\* mutex_lock_interruptible returning 0: the caller owns the lock.
lock_acquire(c, next) ==
  [c EXCEPT !.dev.lock = c.p, !.l.pc = next,
            !.l.snap = Snapshot(c.dev, c.heap)]

\* mutex_unlock; return v.
unlock_return(c, v) ==
  [c EXCEPT !.dev.lock = NULL, !.l = Returned(c.l, v)]

\* Variant: the interrupted caller runs mutex_unlock on its way out.
lock_interrupted_Unlocks(c) == unlock_return(c, 0 - ERESTARTSYS)

\* mutex_lock_interruptible returning non-zero (lines 65-67, 117-119): a
\* signal ended the wait, the call returns -ERESTARTSYS.
lock_interrupted(c) == [c EXCEPT !.l = Returned(c.l, 0 - ERESTARTSYS)]

(* ------------------------------------------------------------------ *)
(* aesd_write, statement group by statement group                      *)
(* ------------------------------------------------------------------ *)

\* Variant: a write of zero bytes goes on to take the lock.
write_entry_NoZeroCheck(l, buf, count) ==
  LET a == [IdleLocals EXCEPT !.op = "write", !.buf = buf, !.count = count]
  IN  IF buf.kind = "null" THEN Returned(a, 0 - EFAULT)
      ELSE [a EXCEPT !.pc = "w_lock"]

\* Lines 109-115: the checks before the lock.
write_entry(l, buf, count) ==
  LET a == [IdleLocals EXCEPT !.op = "write", !.buf = buf, !.count = count]
  IN  IF buf.kind = "null" THEN Returned(a, 0 - EFAULT)
      ELSE IF count = 0 THEN Returned(a, 0)
      ELSE [a EXCEPT !.pc = "w_lock"]

\* Lines 122-126.
w_alloc_ok(c) ==
  LET m == Kmalloc(c.heap, c.l.count)
  IN  [c EXCEPT !.heap = m.heap, !.l.write_buffer = m.addr, !.l.pc = "w_copy"]
w_alloc_fail(c) == unlock_return(c, 0 - ENOMEM)

\* Lines 129-133.
w_copy_ok(c) ==
  [c EXCEPT !.heap = Poke(c.heap, c.l.write_buffer, 0, c.l.buf.data),
            !.l.pc = "w_scan"]
w_copy_fail(c) ==
  unlock_return([c EXCEPT !.heap = Kfree(c.heap, c.l.write_buffer)], 0 - EFAULT)

\* Line 141: size of the complete command.
CommandSize_NoNewline(partial_write_size, newline_offset) ==
  partial_write_size + newline_offset
CommandSize(partial_write_size, newline_offset) ==
  partial_write_size + newline_offset + 1

\* Lines 136-141 and 186: memchr, then the size of the buffer to allocate.
w_scan_LastNewline(c) ==
  LET data == Peek(c.heap, c.l.write_buffer, 0, c.l.count)
      pos  == IF FirstNL(data) = 0 THEN 0
              ELSE CHOOSE i \in 1..Len(data) :
                     data[i] = NL /\ \A j \in (i + 1)..Len(data) : data[j] # NL
  IN  IF pos # NULL
      THEN [c EXCEPT !.l.newline_pos = pos, !.l.newline_offset = pos - 1,
                     !.l.total_size =
                        CommandSize(c.dev.partial_write_size, pos - 1),
                     !.l.pc = "w_calloc"]
      ELSE [c EXCEPT !.l.new_partial_size =
                        c.dev.partial_write_size + c.l.count,
                     !.l.pc = "w_palloc"]
\* Variant: memchr never finds the newline.
w_scan_NeverFinds(c) ==
  [c EXCEPT !.l.new_partial_size = c.dev.partial_write_size + c.l.count,
            !.l.pc = "w_palloc"]
w_scan(c) ==
  LET pos == FirstNL(Peek(c.heap, c.l.write_buffer, 0, c.l.count))
  IN  IF pos # NULL
      THEN [c EXCEPT !.l.newline_pos = pos, !.l.newline_offset = pos - 1,
                     !.l.total_size =
                        CommandSize(c.dev.partial_write_size, pos - 1),
                     !.l.pc = "w_calloc"]
      ELSE [c EXCEPT !.l.new_partial_size =
                        c.dev.partial_write_size + c.l.count,
                     !.l.pc = "w_palloc"]

\* Variant: this exit forgets mutex_unlock.
w_palloc_fail_KeepsLock(c) ==
  [c EXCEPT !.heap = Kfree(c.heap, c.l.write_buffer),
            !.l = Returned(c.l, 0 - ENOMEM)]

\* Lines 144-149.
w_calloc_ok(c) ==
  LET m == Kmalloc(c.heap, c.l.total_size)
  IN  [c EXCEPT !.heap = m.heap, !.l.complete_buffer = m.addr,
                !.l.pc = "w_cjoin"]
\* Variant: the copy of the chunk is not freed on this exit.
w_calloc_fail_KeepsChunk(c) == unlock_return(c, 0 - ENOMEM)
w_calloc_fail(c) ==
  unlock_return([c EXCEPT !.heap = Kfree(c.heap, c.l.write_buffer)], 0 - ENOMEM)

\* Lines 152-157: the partial write, then the chunk up to its newline.
w_cjoin_ChunkFirst(c) ==
  LET d  == c.dev
      h1 == Memcpy(c.heap, c.l.complete_buffer, 0,
                   c.l.write_buffer, 0, c.l.newline_offset + 1)
      h2 == IF d.partial_write_buffer # NULL /\ d.partial_write_size > 0
            THEN Memcpy(h1, c.l.complete_buffer, c.l.newline_offset + 1,
                        d.partial_write_buffer, 0, d.partial_write_size)
            ELSE h1
  IN  [c EXCEPT !.heap = h2, !.l.pc = "w_cfree"]
w_cjoin(c) ==
  LET d  == c.dev
      h1 == IF d.partial_write_buffer # NULL /\ d.partial_write_size > 0
            THEN Memcpy(c.heap, c.l.complete_buffer, 0,
                        d.partial_write_buffer, 0, d.partial_write_size)
            ELSE c.heap
      h2 == Memcpy(h1, c.l.complete_buffer, d.partial_write_size,
                   c.l.write_buffer, 0, c.l.newline_offset + 1)
  IN  [c EXCEPT !.heap = h2, !.l.pc = "w_cfree"]

\* Lines 160-164.
w_cfree(c) ==
  IF c.dev.partial_write_buffer # NULL
  THEN [c EXCEPT !.heap = Kfree(c.heap, c.dev.partial_write_buffer),
                 !.dev.partial_write_buffer = NULL,
                 !.dev.partial_write_size = 0,
                 !.l.pc = "w_evict"]
  ELSE [c EXCEPT !.l.pc = "w_evict"]

\* Lines 172-177: the slot about to be overwritten gives up its buffer.
w_evict_Never(c) == [c EXCEPT !.l.pc = "w_add"]
w_evict(c) ==
  LET cb  == c.dev.circular_buffer
      old == cb.entry[cb.in_offs]
  IN  IF cb.full /\ old.buffptr # NULL
      THEN [c EXCEPT !.heap = Kfree(c.heap, old.buffptr), !.l.pc = "w_add"]
      ELSE [c EXCEPT !.l.pc = "w_add"]

\* Line 182: what a write that completed a command reports.
AcceptedToNewline_WholeChunk(count, newline_offset) == count
AcceptedToNewline(count, newline_offset) == newline_offset + 1

\* Lines 167-168 and 180: the entry is handed to the circular buffer, which
\* stores it ...
w_add(c) ==
  [c EXCEPT !.dev.circular_buffer =
               cb_store(c.dev.circular_buffer,
                        [buffptr |-> c.l.complete_buffer,
                         size |-> c.l.total_size]),
            !.l.pc = "w_adv"]

\* Variant: the write index stays where it was, so the next command is
\* stored over this one.
w_adv_NoAdvance(c) ==
  [c EXCEPT !.l.retval = AcceptedToNewline(c.l.count, c.l.newline_offset),
            !.l.pc = "w_wfree"]

\* ... and advances in_offs; line 182.
w_adv(c) ==
  [c EXCEPT !.dev.circular_buffer = cb_advance(c.dev.circular_buffer),
            !.l.retval = AcceptedToNewline(c.l.count, c.l.newline_offset),
            !.l.pc = "w_wfree"]

\* Lines 187-192.
w_palloc_ok(c) ==
  LET m == Kmalloc(c.heap, c.l.new_partial_size)
  IN  [c EXCEPT !.heap = m.heap, !.l.new_partial_buffer = m.addr,
                !.l.pc = "w_pcopy"]
w_palloc_fail(c) ==
  unlock_return([c EXCEPT !.heap = Kfree(c.heap, c.l.write_buffer)], 0 - ENOMEM)

\* Variant: the old partial write is freed before it is copied.
w_pcopy_FreeFirst(c) ==
  LET d == c.dev
  IN  IF d.partial_write_buffer # NULL /\ d.partial_write_size > 0
      THEN [c EXCEPT !.heap =
                        Memcpy(Kfree(c.heap, d.partial_write_buffer),
                               c.l.new_partial_buffer, 0,
                               d.partial_write_buffer, 0,
                               d.partial_write_size),
                     !.l.pc = "w_pset"]
      ELSE [c EXCEPT !.l.pc = "w_pset"]

\* Lines 195-198.
w_pcopy(c) ==
  LET d == c.dev
  IN  IF d.partial_write_buffer # NULL /\ d.partial_write_size > 0
      THEN [c EXCEPT !.heap =
                        Kfree(Memcpy(c.heap, c.l.new_partial_buffer, 0,
                                     d.partial_write_buffer, 0,
                                     d.partial_write_size),
                              d.partial_write_buffer),
                     !.l.pc = "w_pset"]
      ELSE [c EXCEPT !.l.pc = "w_pset"]

\* Lines 201-206.
w_pset_Overwrite(c) ==
  [c EXCEPT !.heap = Memcpy(c.heap, c.l.new_partial_buffer, 0,
                            c.l.write_buffer, 0, c.l.count),
            !.dev.partial_write_buffer = c.l.new_partial_buffer,
            !.dev.partial_write_size = c.l.new_partial_size,
            !.l.retval = c.l.count,
            !.l.pc = "w_wfree"]
w_pset(c) ==
  [c EXCEPT !.heap = Memcpy(c.heap, c.l.new_partial_buffer,
                            c.dev.partial_write_size,
                            c.l.write_buffer, 0, c.l.count),
            !.dev.partial_write_buffer = c.l.new_partial_buffer,
            !.dev.partial_write_size = c.l.new_partial_size,
            !.l.retval = c.l.count,
            !.l.pc = "w_wfree"]

\* Lines 183 and 207.
w_wfree(c) ==
  [c EXCEPT !.heap = Kfree(c.heap, c.l.write_buffer),
            !.l.write_buffer = NULL, !.l.pc = "w_unlock"]

\* Lines 210-211.
w_unlock(c) == unlock_return(c, c.l.retval)

\* aesd_write run from entry to return with nothing failing and no other
\* caller in between.
aesd_write(c0, data) ==
  LET c1 == [c0 EXCEPT !.l = write_entry(c0.l, [kind |-> "ok", data |-> data],
                                         Len(data))]
      c2 == w_scan(w_copy_ok(w_alloc_ok(lock_acquire(c1, "w_alloc"))))
      c3 == IF c2.l.pc = "w_calloc"
            THEN w_adv(w_add(w_evict(w_cfree(w_cjoin(w_calloc_ok(c2))))))
            ELSE w_pset(w_pcopy(w_palloc_ok(c2)))
  IN  IF c1.l.pc = "ret" THEN c1 ELSE w_unlock(w_wfree(c3))

(* ------------------------------------------------------------------ *)
(* aesd_read, statement group by statement group                       *)
(* ------------------------------------------------------------------ *)

\* Lines 61-63: the check before the lock.  op is "pread" for a call at a
\* position the caller names, "read" for one at the position the caller's
\* earlier reads reached.
read_entry(l, op, buf, count, f_pos) ==
  LET a == [IdleLocals EXCEPT !.op = op, !.buf = buf, !.count = count,
                              !.f_pos = f_pos]
  IN  IF buf.kind = "null" THEN Returned(a, 0 - EFAULT)
      ELSE [a EXCEPT !.pc = "r_lock"]

\* Lines 78-81.
BytesToRead_IgnoreEntryEnd(size, entry_offset_byte, count) == count
BytesToRead(size, entry_offset_byte, count) ==
  Min(size - entry_offset_byte, count)

\* Variant: a position past the last entry is reported as an error.
r_find_EofIsError(c) ==
  LET cb == c.dev.circular_buffer
      r  == aesd_circular_buffer_find_entry_offset_for_fpos(cb, c.l.f_pos)
  IN  IF r.entry = NoEntry \/ cb.entry[r.entry].buffptr = NULL
      THEN unlock_return(c, 0 - EFAULT)
      ELSE [c EXCEPT !.l.entry = r.entry,
                     !.l.entry_offset_byte = r.entry_offset_byte,
                     !.l.bytes_to_read =
                        BytesToRead(cb.entry[r.entry].size,
                                    r.entry_offset_byte, c.l.count),
                     !.l.pc = "r_copy"]

\* Lines 70-81.
r_find(c) ==
  LET cb == c.dev.circular_buffer
      r  == aesd_circular_buffer_find_entry_offset_for_fpos(cb, c.l.f_pos)
  IN  IF r.entry = NoEntry \/ cb.entry[r.entry].buffptr = NULL
      THEN unlock_return(c, 0)
      ELSE [c EXCEPT !.l.entry = r.entry,
                     !.l.entry_offset_byte = r.entry_offset_byte,
                     !.l.bytes_to_read =
                        BytesToRead(cb.entry[r.entry].size,
                                    r.entry_offset_byte, c.l.count),
                     !.l.pc = "r_copy"]

\* copy_to_user / copy_from_user of n bytes fails on a faulting user buffer.
CopyFaults(buf, n) == buf.kind = "bad" /\ n > 0

\* Lines 84-90.
r_copy_FromEntryStart(c) ==
  LET e == c.dev.circular_buffer.entry[c.l.entry]
      n == c.l.bytes_to_read
  IN  IF CopyFaults(c.l.buf, n)
      THEN unlock_return(c, 0 - EFAULT)
      ELSE [c EXCEPT !.heap.err = @ \cup PeekErr(c.heap, e.buffptr, 0, n),
                     !.l.out = Peek(c.heap, e.buffptr, 0, n),
                     !.l.f_pos = c.l.f_pos + n,
                     !.l.retval = n,
                     !.l.pc = "r_unlock"]
\* Variant: the file position moves although copy_to_user failed.
r_copy_FaultAdvances(c) ==
  LET e == c.dev.circular_buffer.entry[c.l.entry]
      n == c.l.bytes_to_read
  IN  IF CopyFaults(c.l.buf, n)
      THEN unlock_return([c EXCEPT !.l.f_pos = c.l.f_pos + n], 0 - EFAULT)
      ELSE [c EXCEPT !.heap.err =
                        @ \cup PeekErr(c.heap, e.buffptr,
                                       c.l.entry_offset_byte, n),
                     !.l.out = Peek(c.heap, e.buffptr, c.l.entry_offset_byte, n),
                     !.l.f_pos = c.l.f_pos + n,
                     !.l.retval = n,
                     !.l.pc = "r_unlock"]
r_copy(c) ==
  LET e == c.dev.circular_buffer.entry[c.l.entry]
      n == c.l.bytes_to_read
  IN  IF CopyFaults(c.l.buf, n)
      THEN unlock_return(c, 0 - EFAULT)
      ELSE [c EXCEPT !.heap.err =
                        @ \cup PeekErr(c.heap, e.buffptr,
                                       c.l.entry_offset_byte, n),
                     !.l.out = Peek(c.heap, e.buffptr, c.l.entry_offset_byte, n),
                     !.l.f_pos = c.l.f_pos + n,
                     !.l.retval = n,
                     !.l.pc = "r_unlock"]

\* Lines 92-93.
r_unlock(c) == unlock_return(c, c.l.retval)

(* ------------------------------------------------------------------ *)
(* Inputs                                                              *)
(* ------------------------------------------------------------------ *)

\* Caller p writes its own letter ('a', 'b', ...) and newlines.
UserByte(p) == 96 + p
Chunks(p) == SeqsUpTo({UserByte(p), NL}, MaxChunk)

OkBuf(data) == [kind |-> "ok", data |-> data]
NullBuf == [kind |-> "null", data |-> <<>>]
BadBuf == [kind |-> "bad", data |-> <<>>]

WriteArgs(p) ==
  {[buf |-> OkBuf(s), count |-> Len(s)] : s \in Chunks(p)}
    \cup {[buf |-> NullBuf, count |-> n] : n \in 0..1}
    \cup {[buf |-> BadBuf, count |-> 1]}

ReadArgs(offs, counts) ==
  {[buf |-> b, count |-> n, f_pos |-> o] :
     b \in {OkBuf(<<>>)}, n \in counts, o \in offs}
    \cup {[buf |-> b, count |-> 1, f_pos |-> 0] : b \in {NullBuf, BadBuf}}

IsFault(buf) == buf.kind \in {"null", "bad"}

\* The commands the device took before Init: '1'.. digits, of sizes 2, 3, 1.
PreCmd(i) ==
  LET d == 48 + (i % 10)
  IN  IF i % 3 = 1 THEN <<d, NL>> ELSE IF i % 3 = 2 THEN <<d, d, NL>> ELSE <<NL>>

RECURSIVE Preload(_)
\* The device and the heap after the writes PreCmd(1) .. PreCmd(n).
Preload(n) ==
  IF n = 0
  THEN [p |-> 1, dev |-> aesd_init_module, heap |-> EmptyHeap, l |-> IdleLocals]
  ELSE [aesd_write(Preload(n - 1), PreCmd(n)) EXCEPT !.l = IdleLocals]

PreHist(n) == [i \in 1..n |-> [p |-> 0, bytes |-> PreCmd(i)]]

PreFills ==
  {0} \cup ((AESDCHAR_MAX_WRITE_OPERATIONS_SUPPORTED - 1)..MaxPre)

(* ------------------------------------------------------------------ *)
(* Actions                                                             *)
(* ------------------------------------------------------------------ *)

Ctx(p) == [p |-> p, dev |-> dev, heap |-> heap, l |-> t[p]]

Commit(p, c) ==
  /\ dev' = c.dev
  /\ heap' = c.heap
  /\ t' = [t EXCEPT ![p] = c.l]

\* One statement group of caller p, run from position pc.
Step(p, pc, c) ==
  /\ t[p].pc = pc
  /\ Commit(p, c)
  /\ UNCHANGED <<hist, ncalls, nfaults, acc>>

\* A statement group that fails because of the environment.
FailStep(p, pc, c) ==
  /\ t[p].pc = pc
  /\ nfaults < MaxFaults
  /\ Commit(p, c)
  /\ nfaults' = nfaults + 1
  /\ UNCHANGED <<hist, ncalls, acc>>

WriteCall(p) ==
  /\ t[p].pc = "idle"
  /\ ncalls < MaxCalls
  /\ \E a \in WriteArgs(p) :
       /\ IsFault(a.buf) => nfaults < MaxFaults
       /\ t' = [t EXCEPT ![p] = write_entry(t[p], a.buf, a.count)]
       /\ nfaults' = IF IsFault(a.buf) THEN nfaults + 1 ELSE nfaults
  /\ ncalls' = ncalls + 1
  /\ UNCHANGED <<dev, heap, hist, acc>>

WLock(p) == MutexFree(dev) /\ Step(p, "w_lock", lock_acquire(Ctx(p), "w_alloc"))
\* A signal arrives while the caller is blocked on the mutex.
WLockIntr(p) ==
  /\ ~MutexFree(dev)
  /\ FailStep(p, "w_lock", lock_interrupted(Ctx(p)))
WAlloc(p) == Step(p, "w_alloc", w_alloc_ok(Ctx(p)))
WAllocFail(p) == FailStep(p, "w_alloc", w_alloc_fail(Ctx(p)))
WCopy(p) ==
  Step(p, "w_copy",
       IF CopyFaults(t[p].buf, t[p].count) THEN w_copy_fail(Ctx(p))
       ELSE w_copy_ok(Ctx(p)))
WScan(p) == Step(p, "w_scan", w_scan(Ctx(p)))
WCAlloc(p) == Step(p, "w_calloc", w_calloc_ok(Ctx(p)))
WCAllocFail(p) == FailStep(p, "w_calloc", w_calloc_fail(Ctx(p)))
WCJoin(p) == Step(p, "w_cjoin", w_cjoin(Ctx(p)))
WCFree(p) == Step(p, "w_cfree", w_cfree(Ctx(p)))
WEvict(p) == Step(p, "w_evict", w_evict(Ctx(p)))
WAdd(p) == Step(p, "w_add", w_add(Ctx(p)))
WAdv(p) == Step(p, "w_adv", w_adv(Ctx(p)))
WPAlloc(p) == Step(p, "w_palloc", w_palloc_ok(Ctx(p)))
WPAllocFail(p) == FailStep(p, "w_palloc", w_palloc_fail(Ctx(p)))
WPCopy(p) == Step(p, "w_pcopy", w_pcopy(Ctx(p)))
WPSet(p) == Step(p, "w_pset", w_pset(Ctx(p)))
WWFree(p) == Step(p, "w_wfree", w_wfree(Ctx(p)))
WUnlock(p) ==
  /\ t[p].pc = "w_unlock"
  /\ Commit(p, w_unlock(Ctx(p)))
  /\ hist' = Append(hist, [p |-> p, bytes |-> Take(t[p].buf.data, t[p].retval)])
  /\ UNCHANGED <<ncalls, nfaults, acc>>

\* pread(fd, buf, count, f_pos).
PReadCall(p) ==
  /\ t[p].pc = "idle"
  /\ ncalls < MaxCalls
  /\ \E a \in ReadArgs(0..MaxOff, 0..MaxCount) :
       /\ IsFault(a.buf) => nfaults < MaxFaults
       /\ t' = [t EXCEPT ![p] =
                  read_entry(t[p], "pread", a.buf, a.count, a.f_pos)]
       /\ nfaults' = IF IsFault(a.buf) THEN nfaults + 1 ELSE nfaults
  /\ ncalls' = ncalls + 1
  /\ UNCHANGED <<dev, heap, hist, acc>>

RLock(p) == MutexFree(dev) /\ Step(p, "r_lock", lock_acquire(Ctx(p), "r_find"))
RLockIntr(p) ==
  /\ ~MutexFree(dev)
  /\ FailStep(p, "r_lock", lock_interrupted(Ctx(p)))
RFind(p) == Step(p, "r_find", r_find(Ctx(p)))
RCopy(p) == Step(p, "r_copy", r_copy(Ctx(p)))
RUnlock(p) == Step(p, "r_unlock", r_unlock(Ctx(p)))

\* The call is over: the caller is back in user space.  A sequential
\* reader appends what it was given to what it has read so far.
Return(p) ==
  /\ t[p].pc = "ret"
  /\ t' = [t EXCEPT ![p] = IdleLocals]
  /\ acc' = IF t[p].op = "read" /\ t[p].retval > 0 THEN acc \o t[p].out ELSE acc
  /\ UNCHANGED <<dev, heap, hist, ncalls, nfaults>>

WriteSteps(p) ==
  \/ WLock(p) \/ WLockIntr(p) \/ WAlloc(p) \/ WAllocFail(p) \/ WCopy(p)
  \/ WScan(p) \/ WCAlloc(p) \/ WCAllocFail(p) \/ WCJoin(p) \/ WCFree(p)
  \/ WEvict(p) \/ WAdd(p) \/ WAdv(p) \/ WPAlloc(p) \/ WPAllocFail(p) \/ WPCopy(p)
  \/ WPSet(p) \/ WWFree(p) \/ WUnlock(p)

ReadSteps(p) == RLock(p) \/ RFind(p) \/ RCopy(p) \/ RUnlock(p)

InitWith(c, h) ==
  /\ dev = c.dev
  /\ heap = c.heap
  /\ t = [p \in Procs |-> IdleLocals]
  /\ hist = h
  /\ ncalls = 0
  /\ nfaults = 0
  /\ acc = <<>>

\* aesd_init_module, followed by the commands of an earlier, sequential use.
Init == \E n \in PreFills : InitWith(Preload(n), PreHist(n))

Next ==
  \E p \in Procs :
    \/ WriteCall(p) \/ WriteSteps(p)
    \/ PReadCall(p) \/ ReadSteps(p) \/ RLockIntr(p)
    \/ Return(p)

Spec == Init /\ [][Next]_vars

(* ------------------------------------------------------------------ *)
(* A sequential reader over a device that is not written to            *)
(* ------------------------------------------------------------------ *)

\* Largest count of a read call of SpecRead (entries hold 1 to 3 bytes).
MaxReadCount == 3

\* The logical stream read offsets address.
Stream(d, h) == Flatten(LiveEntries(d, h))

\* read(fd, buf, count): the position is the one the caller's reads reached.
SeqReadCall(p) ==
  /\ t[p].pc = "idle"
  /\ \E n \in 1..MaxReadCount :
       t' = [t EXCEPT ![p] = read_entry(t[p], "read", OkBuf(<<>>), n, Len(acc))]
  /\ UNCHANGED <<dev, heap, hist, ncalls, nfaults, acc>>

\* pread at any position of the stream and a little beyond.
PReadAnyCall(p) ==
  /\ t[p].pc = "idle"
  /\ \E a \in ReadArgs(0..(Len(Stream(dev, heap)) + MaxOff), 1..MaxReadCount) :
       /\ ~IsFault(a.buf)
       /\ t' = [t EXCEPT ![p] =
                  read_entry(t[p], "pread", a.buf, a.count, a.f_pos)]
  /\ UNCHANGED <<dev, heap, hist, ncalls, nfaults, acc>>

\* The device after 0 .. MaxPre + 2 commands (the buffer has wrapped for
\* the last two), with or without a partial command pending.
InitRead ==
  \E n \in 0..(MaxPre + 2), pending \in BOOLEAN :
    InitWith(IF pending
             THEN [aesd_write(Preload(n), <<UserByte(1)>>) EXCEPT !.l = IdleLocals]
             ELSE Preload(n),
             IF pending
             THEN Append(PreHist(n), [p |-> 1, bytes |-> <<UserByte(1)>>])
             ELSE PreHist(n))

NextRead ==
  \E p \in {1} :
    \/ SeqReadCall(p) \/ PReadAnyCall(p) \/ ReadSteps(p) \/ Return(p)

SpecRead == InitRead /\ [][NextRead]_vars

(* ------------------------------------------------------------------ *)
(* Scheduling                                                          *)
(* ------------------------------------------------------------------ *)

\* A statement group inside the critical section that does not fail: the
\* lock's owner never blocks there, so the scheduler lets it run.
ProgressStep(p) ==
  \/ WAlloc(p) \/ WCopy(p) \/ WScan(p) \/ WCAlloc(p) \/ WCJoin(p)
  \/ WCFree(p) \/ WEvict(p) \/ WAdd(p) \/ WAdv(p) \/ WPAlloc(p)
  \/ WPCopy(p) \/ WPSet(p) \/ WWFree(p) \/ WUnlock(p)
  \/ RFind(p) \/ RCopy(p) \/ RUnlock(p)

\* mutex_lock_interruptible succeeding.
Acquire(p) == WLock(p) \/ RLock(p)

\* The owner of the lock keeps running, and the mutex hands the lock to a
\* waiter that finds it free again and again (waiters queue in the kernel).
\* Signals, failures and new calls are not forced.
Fairness ==
  \A p \in Procs : WF_vars(ProgressStep(p)) /\ SF_vars(Acquire(p))

\* The callers of Spec on a freshly loaded module, scheduled fairly.
InitFair == InitWith(Preload(0), PreHist(0))

SpecFair == InitFair /\ [][Next]_vars /\ Fairness

(* ------------------------------------------------------------------ *)
(* Module unload                                                       *)
(* ------------------------------------------------------------------ *)

\* Owner field of dev->lock after mutex_destroy.
MutexDestroyed == 0 - 2

\* AESD_CIRCULAR_BUFFER_FOREACH (aesd-circular-buffer.h): the slots the
\* loop visits, in order: every slot of the array, live or not.
AESD_CIRCULAR_BUFFER_FOREACH(cb) == Slots

RECURSIVE FreeEntriesFrom(_, _, _)
\* Lines 288-292, from slot index on: kfree of every buffptr that is not
\* NULL.
FreeEntriesFrom(cb, h, index) ==
  IF index \notin AESD_CIRCULAR_BUFFER_FOREACH(cb) THEN h
  ELSE FreeEntriesFrom(cb,
                       IF cb.entry[index].buffptr # NULL
                       THEN Kfree(h, cb.entry[index].buffptr) ELSE h,
                       index + 1)

\* Variant: the partial write is left alone.
aesd_cleanup_module_SkipsPending(d, h) ==
  [dev  |-> [d EXCEPT !.lock = MutexDestroyed],
   heap |-> FreeEntriesFrom(d.circular_buffer, h, 0)]

\* aesd_cleanup_module, lines 276-295: under the lock, the partial write is
\* freed and reset, then every entry's buffer is freed (the slots keep
\* their pointers); the mutex is destroyed.
aesd_cleanup_module(d, h) ==
  LET h1 == IF d.partial_write_buffer # NULL
            THEN Kfree(h, d.partial_write_buffer) ELSE h
      d1 == IF d.partial_write_buffer # NULL
            THEN [d EXCEPT !.partial_write_buffer = NULL,
                           !.partial_write_size = 0]
            ELSE d
  IN  [dev  |-> [d1 EXCEPT !.lock = MutexDestroyed],
       heap |-> FreeEntriesFrom(d.circular_buffer, h1, 0)]

Unloaded == dev.lock = MutexDestroyed

\* rmmod: the module can go only when no file is open, so no caller is
\* inside a call, and mutex_lock (line 276) finds the lock free.
Cleanup ==
  /\ \A p \in Procs : t[p].pc = "idle"
  /\ MutexFree(dev)
  /\ LET r == aesd_cleanup_module(dev, heap)
     IN  dev' = r.dev /\ heap' = r.heap
  /\ UNCHANGED <<t, hist, ncalls, nfaults, acc>>

\* The callers of Spec, and the module's unload at any quiet moment.
NextUnload == (~Unloaded /\ Next) \/ Cleanup

SpecUnload == Init /\ [][NextUnload]_vars

(* ------------------------------------------------------------------ *)
(* Properties                                                          *)
(* ------------------------------------------------------------------ *)

\* Every byte writes have been told was accepted, in lock order.
AcceptedStream == Flatten([i \in 1..Len(hist) |-> hist[i].bytes])

CB == dev.circular_buffer

\* Caller p has run the whole critical section of a write and is about to
\* release the lock.
WriteDone(p) == t[p].pc = "w_unlock"

\* C1: whenever no caller is inside a write, the live entries are exactly
\* the last min(n, 10) complete commands of the accepted byte stream, oldest
\* first, each ending with its newline; there are never more than 10.
C1_RingHoldsLastCommands ==
  /\ NumLive(CB) <= AESDCHAR_MAX_WRITE_OPERATIONS_SUPPORTED
  /\ dev.lock = NULL =>
       /\ LiveEntries(dev, heap) =
            LastN(Commands(AcceptedStream),
                  AESDCHAR_MAX_WRITE_OPERATIONS_SUPPORTED)
       /\ NumLive(CB) =
            Min(Len(Commands(AcceptedStream)),
                AESDCHAR_MAX_WRITE_OPERATIONS_SUPPORTED)

\* A caller's command has evicted an older one after the buffer wrapped.
C1_Witness ==
  /\ dev.lock = NULL
  /\ Len(Commands(AcceptedStream)) >= AESDCHAR_MAX_WRITE_OPERATIONS_SUPPORTED + 2
  /\ hist[Len(hist)].p # 0
  /\ FirstNL(hist[Len(hist)].bytes) # 0

\* The chunks accepted since the last complete command.
RECURSIVE TrailingChunks(_)
TrailingChunks(h) ==
  IF h = <<>> \/ FirstNL(h[Len(h)].bytes) # 0 THEN <<>>
  ELSE Append(TrailingChunks(SubSeq(h, 1, Len(h) - 1)), h[Len(h)].bytes)

\* C2: a write of a non-empty chunk without newline leaves the circular
\* buffer and its entries as they were and appends the whole chunk to the
\* partial write; the partial write's length is the sum of the lengths of
\* the newline-free chunks accepted since the last complete command.
C2_NoDelimiterOnlyGrowsPending ==
  /\ \A p \in Procs :
       WriteDone(p) /\ FirstNL(t[p].buf.data) = 0 =>
         /\ CB = t[p].snap.dev.circular_buffer
         /\ LiveEntries(dev, heap) = t[p].snap.ents
         /\ PendingBytes(dev, heap) = t[p].snap.pend \o t[p].buf.data
         /\ dev.partial_write_size = Len(t[p].snap.pend) + t[p].count
  /\ dev.lock = NULL =>
       /\ dev.partial_write_size =
            SumSeq([i \in 1..Len(TrailingChunks(hist)) |->
                      Len(TrailingChunks(hist)[i])])
       /\ PendingBytes(dev, heap) = Flatten(TrailingChunks(hist))

\* A second newline-free chunk lands on a non-empty partial write while
\* the circular buffer holds entries.
C2_Witness ==
  \E p \in Procs :
    /\ WriteDone(p) /\ FirstNL(t[p].buf.data) = 0
    /\ Len(t[p].snap.pend) > 0
    /\ Len(t[p].snap.ents) > 0
    /\ Len(TrailingChunks(hist)) > 0

\* C3: a write whose chunk has its first newline at offset d completes one
\* command: the entries become the earlier ones followed by (prior partial
\* write + chunk[0..d]), of size prior + d + 1, the partial write is empty,
\* and nothing of the chunk after offset d is kept.
C3_DelimiterCompletesOneCommand ==
  \A p \in Procs :
    WriteDone(p) /\ FirstNL(t[p].buf.data) # 0 =>
      LET d   == FirstNL(t[p].buf.data) - 1
          new == t[p].snap.pend \o SubSeq(t[p].buf.data, 1, d + 1)
          s   == SlotOf(CB, NumLive(CB))
      IN  /\ LiveEntries(dev, heap) =
               LastN(Append(t[p].snap.ents, new),
                     AESDCHAR_MAX_WRITE_OPERATIONS_SUPPORTED)
          /\ CB.entry[s].size = Len(t[p].snap.pend) + d + 1
          /\ EntryBytes(dev, heap, s) = new
          /\ CB = aesd_circular_buffer_add_entry(
                     t[p].snap.dev.circular_buffer, CB.entry[s])
          /\ dev.partial_write_buffer = NULL
          /\ dev.partial_write_size = 0
          /\ PendingBytes(dev, heap) = <<>>

\* The chunk ends a non-empty partial write and carries a further newline
\* after its first one.
C3_Witness ==
  \E p \in Procs :
    /\ WriteDone(p)
    /\ Len(t[p].snap.pend) > 0
    /\ LET d == FirstNL(t[p].buf.data)
       IN  d # 0 /\ d < Len(t[p].buf.data)
           /\ FirstNL(Drop(t[p].buf.data, d)) # 0

\* C4: a write of a non-empty chunk that does not fail returns d + 1 when
\* the chunk's first newline is at offset d and the chunk's length when it
\* has none: between 1 and the chunk's length.
C4_WriteReturnsAcceptedCount ==
  \A p \in Procs :
    /\ t[p].pc \in {"w_unlock", "ret"} /\ t[p].op = "write"
    /\ t[p].buf.kind = "ok" /\ t[p].count > 0 /\ t[p].retval >= 0
    => /\ t[p].retval =
            IF FirstNL(t[p].buf.data) # 0 THEN (FirstNL(t[p].buf.data) - 1) + 1
            ELSE Len(t[p].buf.data)
       /\ t[p].retval \in 1..t[p].count

\* A write has returned less than its chunk's length.
C4_Witness ==
  \E p \in Procs :
    /\ t[p].pc = "ret" /\ t[p].op = "write"
    /\ t[p].retval > 0 /\ t[p].retval < t[p].count

\* Sum of the sizes of the live entries older than the one in slot s.
RECURSIVE SizeBefore(_, _)
SizeBefore(cb, k) ==
  IF k <= 1 THEN 0
  ELSE SizeBefore(cb, k - 1) + cb.entry[SlotOf(cb, k - 1)].size
\* Position (1 = oldest) of slot s among the live entries.
LiveIndex(cb, s) ==
  ((s - OldestSlot(cb)) % AESDCHAR_MAX_WRITE_OPERATIONS_SUPPORTED) + 1

\* C5: a reader that starts at offset 0 and advances by what each read
\* returned has always read a prefix of the concatenated live entries; a
\* read returns at least one byte while the offset is short of the total
\* length; the read at the total length returns 0, not an error, and by
\* then the reader holds the whole concatenation.
C5_SequentialReadsRoundTrip ==
  /\ acc = Take(Stream(dev, heap), Len(acc))
  /\ \A p \in Procs :
       t[p].pc = "ret" /\ t[p].op = "read" =>
         /\ t[p].retval >= 0
         /\ t[p].retval = Len(t[p].out)
         /\ acc \o t[p].out = Take(Stream(dev, heap), Len(acc) + t[p].retval)
         /\ Len(acc) < Len(Stream(dev, heap)) => t[p].retval >= 1
         /\ Len(acc) = Len(Stream(dev, heap)) => t[p].retval = 0
         /\ t[p].retval = 0 => acc = Stream(dev, heap)

\* The reader has drained a buffer that has wrapped and got end of stream.
C5_Witness ==
  \E p \in Procs :
    /\ t[p].pc = "ret" /\ t[p].op = "read" /\ t[p].retval = 0
    /\ CB.full /\ CB.in_offs # 0
    /\ Len(acc) > AESDCHAR_MAX_WRITE_OPERATIONS_SUPPORTED
    /\ acc = Stream(dev, heap)

\* Caller p has copied bytes out and is about to release the lock.
ReadDone(p) == t[p].pc = "r_unlock"

\* C6: a read that finds its offset in an entry returns
\* min(count, size - offset within the entry) bytes, all from that entry
\* starting at that offset, and advances the file position by as many: the
\* offset it was called with is the sizes of the older entries plus the
\* offset within the entry, and it never goes past the entry's end.
C6_ReadStaysInOneEntry ==
  \A p \in Procs :
    ReadDone(p) =>
      LET e   == t[p].entry
          off == t[p].entry_offset_byte
          n   == Min(t[p].count, CB.entry[e].size - off)
          pos == t[p].f_pos - t[p].retval
      IN  /\ e \in {SlotOf(CB, k) : k \in 1..NumLive(CB)}
          /\ off >= 0 /\ off < CB.entry[e].size
          /\ pos = SizeBefore(CB, LiveIndex(CB, e)) + off
          /\ t[p].retval = n
          /\ t[p].out = SubSeq(EntryBytes(dev, heap, e), off + 1, off + n)
          /\ t[p].out = SubSeq(Stream(dev, heap), pos + 1, pos + n)
          /\ t[p].f_pos = pos + n

\* A read inside an entry asks for more than the entry has left while a
\* newer entry follows.
C6_Witness ==
  \E p \in Procs :
    /\ ReadDone(p)
    /\ t[p].entry_offset_byte > 0
    /\ t[p].count > CB.entry[t[p].entry].size - t[p].entry_offset_byte
    /\ LiveIndex(CB, t[p].entry) < NumLive(CB)
    /\ CB.full /\ CB.in_offs # 0

\* The entry buffers that were live when p took the lock and are freed now.
ReleasedEntries(p) ==
  {t[p].snap.ptrs[k] : k \in 1..Len(t[p].snap.ptrs)} \ DOMAIN heap.mem

\* C7: a write that adds an entry to a full circular buffer frees exactly
\* one entry buffer, that of the oldest entry (the slot at in_offs), and
\* afterwards no offset resolves to that buffer; a write to a circular
\* buffer that is not full frees no entry buffer.
C7_FullIngestReleasesOldest ==
  \A p \in Procs :
    WriteDone(p) =>
      LET old == t[p].snap.dev.circular_buffer
      IN  IF old.full /\ FirstNL(t[p].buf.data) # 0
          THEN /\ ReleasedEntries(p) = {old.entry[old.in_offs].buffptr}
               /\ old.entry[old.in_offs].buffptr = t[p].snap.ptrs[1]
               /\ \A o \in 0..(Len(Stream(dev, heap)) + 1) :
                    LET r == aesd_circular_buffer_find_entry_offset_for_fpos(CB, o)
                    IN  r.entry # NoEntry =>
                          /\ CB.entry[r.entry].buffptr \notin ReleasedEntries(p)
                          /\ Live(heap, CB.entry[r.entry].buffptr)
          ELSE ReleasedEntries(p) = {}

\* A command has been added to a circular buffer that was already full and
\* had wrapped.
C7_Witness ==
  \E p \in Procs :
    /\ WriteDone(p) /\ FirstNL(t[p].buf.data) # 0
    /\ t[p].snap.dev.circular_buffer.full
    /\ t[p].snap.dev.circular_buffer.in_offs # 0
    /\ Cardinality(ReleasedEntries(p)) = 1

\* s is one complete command: non-empty, its only newline its last byte.
IsCommand(s) == Len(s) > 0 /\ FirstNL(s) = Len(s)

\* Number of commands the device held at Init.
NPre == Cardinality({i \in 1..Len(hist) : hist[i].p = 0})

\* Every caller has issued exactly one call, a write of one complete
\* command, and all of them have returned with the command accepted.
AllWroteOneCommand ==
  /\ ncalls = NProcs
  /\ \A p \in Procs :
       /\ t[p].pc = "ret" /\ t[p].op = "write"
       /\ IsCommand(t[p].buf.data)
       /\ t[p].retval = t[p].count

\* C8: when N concurrent callers have each written one complete command in
\* one call (the partial write being empty at the start), exactly N entries
\* were added: the newest min(N, 10) live entries are the callers' commands,
\* each caller's once, byte for byte, behind what remains of the older
\* entries, and the partial write is still empty.
C8_ConcurrentWritersAddOneEntryEach ==
  AllWroteOneCommand =>
    LET live == LiveEntries(dev, heap)
        n    == Min(NProcs, AESDCHAR_MAX_WRITE_OPERATIONS_SUPPORTED)
        new  == LastN(live, n)
    IN  /\ Len(live) = Min(NPre + NProcs, AESDCHAR_MAX_WRITE_OPERATIONS_SUPPORTED)
        /\ Len(hist) = NPre + NProcs
        /\ \E f \in Permutations(Procs) :
             \A i \in 1..n : new[i] = t[f[i + NProcs - n]].buf.data
        /\ SubSeq(live, 1, Len(live) - n) =
             LastN([i \in 1..NPre |-> PreCmd(i)],
                   AESDCHAR_MAX_WRITE_OPERATIONS_SUPPORTED - n)
        /\ dev.partial_write_size = 0

\* The callers' commands went into a circular buffer that was full.
C8_Witness ==
  /\ AllWroteOneCommand
  /\ NPre = AESDCHAR_MAX_WRITE_OPERATIONS_SUPPORTED
  /\ \A p \in Procs : Len(t[p].buf.data) > 1

\* The entry caller p is about to hand to the circular buffer.
HandedEntry(p) == Peek(heap, t[p].complete_buffer, 0, t[p].total_size)
Handing(p) == t[p].pc = "w_add"

\* All bytes of s other than newlines are caller q's.
BytesOf(s, q) == \A i \in 1..Len(s) : s[i] = NL \/ s[i] = UserByte(q)

\* C9 as stated: every entry consists of the bytes of a single writer, also
\* when writers deliver their commands over several write calls.
C9_EntryNeverMixesWriters ==
  \A p \in Procs : Handing(p) => \E q \in Procs : BytesOf(HandedEntry(p), q)

\* C9, amended: every entry is the concatenation, in the order the lock was
\* taken, of the whole accepted bytes of the newline-free writes since the
\* last complete command, followed by the completing chunk up to its
\* newline; the bytes of one call are contiguous.  When the partial write
\* was empty as the completing call took the lock, the entry is that
\* caller's bytes alone.
C9_EntryIsWholeChunksInLockOrder ==
  \A p \in Procs :
    Handing(p) =>
      /\ HandedEntry(p) =
           Flatten(TrailingChunks(hist))
             \o Take(t[p].buf.data, t[p].newline_offset + 1)
      /\ TrailingChunks(hist) = <<>> => BytesOf(HandedEntry(p), p)

\* A caller completes a command that another caller began.
C9_Witness ==
  \E p \in Procs :
    /\ Handing(p)
    /\ Len(hist) > 0
    /\ hist[Len(hist)].p \in Procs \ {p}
    /\ Len(TrailingChunks(hist)) > 0
    /\ \E i \in 1..Len(t[p].buf.data) : t[p].buf.data[i] = UserByte(p)

\* The positions between taking dev->lock and releasing it.
CriticalSection ==
  {"w_alloc", "w_copy", "w_scan", "w_calloc", "w_cjoin", "w_cfree", "w_evict",
   "w_add", "w_adv", "w_palloc", "w_pcopy", "w_pset", "w_wfree", "w_unlock",
   "r_find", "r_copy", "r_unlock"}
InCS(p) == t[p].pc \in CriticalSection

\* What dev->lock protects.
Shared == <<dev.partial_write_buffer, dev.partial_write_size,
            dev.circular_buffer, heap>>

\* C10: at most one caller is between lock and unlock, and it is the owner
\* of dev->lock; every step that changes the partial write, the circular
\* buffer or a buffer, or that is taken inside aesd_read's or aesd_write's
\* critical section, is taken by the caller that holds dev->lock.
C10_MutualExclusion ==
  /\ [](/\ Cardinality({p \in Procs : InCS(p)}) <= 1
        /\ \A p \in Procs : InCS(p) => dev.lock = p)
  /\ [][\A p \in Procs :
          t'[p] # t[p] /\ (Shared' # Shared \/ InCS(p)) => dev.lock = p]_vars

\* A reader is copying out while a writer waits for the lock.
C10_Witness ==
  \E p, q \in Procs :
    /\ p # q
    /\ t[p].pc = "r_copy" /\ dev.lock = p
    /\ t[q].pc = "w_lock"

\* The positions of aesd_read between taking dev->lock and releasing it.
Reading(p) == t[p].pc \in {"r_find", "r_copy", "r_unlock"}

\* The commands the device retains: the last 10 completely ingested ones.
Retained ==
  LastN(Commands(AcceptedStream), AESDCHAR_MAX_WRITE_OPERATIONS_SUPPORTED)

\* C11: for as long as a read holds dev->lock, also with writers running
\* alongside, the circular buffer it looks at is fully formed: it is the one
\* it found on taking the lock, every live slot points to an allocated
\* buffer (none was released and not yet replaced) whose length is the
\* slot's size, and the live entries are exactly the retained commands; the
\* bytes the read returns are a contiguous slice of one of these commands.
C11_ReadSeesWholeCommands ==
  \A p \in Procs :
    Reading(p) =>
      /\ CB = t[p].snap.dev.circular_buffer
      /\ LiveEntries(dev, heap) = t[p].snap.ents
      /\ LiveEntries(dev, heap) = Retained
      /\ \A k \in 1..NumLive(CB) :
           LET e == CB.entry[SlotOf(CB, k)]
           IN  /\ Live(heap, e.buffptr)
               /\ e.size = Len(heap.mem[e.buffptr])
               /\ e.size = Len(Retained[k])
      /\ heap.err = {}
      /\ ReadDone(p) =>
           \E k \in 1..Len(Retained) :
             /\ SlotOf(CB, k) = t[p].entry
             /\ t[p].retval = Len(t[p].out)
             /\ t[p].out = SubSeq(Retained[k], t[p].entry_offset_byte + 1,
                                   t[p].entry_offset_byte + t[p].retval)

\* A read has copied bytes of a command out of a full circular buffer to
\* which a caller added a command, while another writer waits for the lock.
C11_Witness ==
  \E p, q \in Procs :
    /\ ReadDone(p) /\ t[p].retval > 0
    /\ t[q].pc = "w_lock"
    /\ CB.full /\ CB.in_offs # 0
    /\ Len(hist) > NPre

\* Caller p is blocked in mutex_lock_interruptible.
Waiting(p) == t[p].pc \in {"w_lock", "r_lock"}
Interrupted(p) == t[p].pc = "ret" /\ t[p].retval = 0 - ERESTARTSYS

\* C12: a call whose wait for dev->lock is ended by a signal returns
\* -ERESTARTSYS, which is neither -EFAULT nor -ENOMEM; the call never owned
\* the lock, and neither its entry nor its interrupted return changes the
\* partial write, the circular buffer, any buffer, the lock's owner or the
\* caller's file position.
C12_InterruptedLeavesStateAlone ==
  /\ [](/\ ERESTARTSYS \notin {EFAULT, ENOMEM, 0}
        /\ \A p \in Procs :
             Interrupted(p) => ~t[p].snap.taken /\ dev.lock # p)
  /\ [][\A p \in Procs :
          /\ t[p].pc = "idle" /\ Waiting(p)' => dev' = dev /\ heap' = heap
          /\ Waiting(p) /\ t'[p].pc = "ret" =>
               /\ Interrupted(p)'
               /\ dev' = dev /\ heap' = heap
               /\ dev.lock \in Procs \ {p}
               /\ t'[p].f_pos = t[p].f_pos
               /\ t'[p].out = <<>>]_vars

\* A write was interrupted while the lock's owner was in the middle of
\* adding a command on top of a pending partial write.
C12_Witness ==
  \E p, q \in Procs :
    /\ Interrupted(p) /\ t[p].op = "write"
    /\ dev.lock = q /\ t[q].pc = "w_add"
    /\ Len(t[q].snap.pend) > 0

\* The positions of aesd_write at which kmalloc is called.
Allocating(p) == t[p].pc \in {"w_alloc", "w_calloc", "w_palloc"}
OutOfMemory(p) == t[p].pc = "ret" /\ t[p].retval = 0 - ENOMEM

\* C13: when one of the three kmalloc calls of a write fails, the write
\* returns -ENOMEM with the lock released and the device as the write found
\* it on taking the lock: same circular buffer (slots, in_offs, full), same
\* entries, same partial write (pointer, size, bytes), the same buffers
\* allocated as before (the copy of the chunk is gone) and no bytes counted
\* as accepted.
C13_AllocFailureLeavesStateAlone ==
  [][\A p \in Procs :
       Allocating(p) /\ t'[p].pc = "ret" =>
         /\ OutOfMemory(p)'
         /\ dev' = [t[p].snap.dev EXCEPT !.lock = NULL]
         /\ LiveEntries(dev', heap') = t[p].snap.ents
         /\ PendingBytes(dev', heap') = t[p].snap.pend
         /\ DOMAIN heap'.mem = t[p].snap.live
         /\ heap'.err = {}
         /\ hist' = hist]_vars

\* A write carrying a newline ran out of memory on a full circular buffer
\* with a partial write pending.
C13_Witness ==
  \E p \in Procs :
    /\ OutOfMemory(p) /\ t[p].snap.taken
    /\ FirstNL(t[p].buf.data) # 0
    /\ Len(t[p].snap.pend) > 0
    /\ t[p].snap.dev.circular_buffer.full

\* Caller p is at copy_from_user (aesd_write) or copy_to_user (aesd_read).
Transferring(p) == t[p].pc \in {"w_copy", "r_copy"}
TransferFault(p) ==
  t[p].pc = "ret" /\ t[p].retval = 0 - EFAULT /\ t[p].snap.taken

\* C14: when copy_from_user or copy_to_user fails the call returns -EFAULT
\* with the lock released and the device as the call found it on taking
\* the lock: same circular buffer and entries, same partial write, same
\* buffers allocated, nothing counted as accepted, nothing handed to the
\* reader and the file position where it was.  A read that succeeds moves
\* the file position by the number of bytes it copied.
C14_TransferFaultLeavesStateAlone ==
  [][\A p \in Procs :
       /\ Transferring(p) /\ t'[p].pc = "ret" =>
            /\ TransferFault(p)'
            /\ dev' = [t[p].snap.dev EXCEPT !.lock = NULL]
            /\ LiveEntries(dev', heap') = t[p].snap.ents
            /\ PendingBytes(dev', heap') = t[p].snap.pend
            /\ DOMAIN heap'.mem = t[p].snap.live
            /\ heap'.err = {}
            /\ hist' = hist
            /\ t'[p].f_pos = t[p].f_pos /\ t'[p].out = <<>>
       /\ t[p].pc = "r_copy" /\ t'[p].pc = "r_unlock" =>
            /\ t'[p].f_pos = t[p].f_pos + Len(t'[p].out)
            /\ t'[p].retval = Len(t'[p].out)
            /\ dev' = dev /\ heap' = heap]_vars

\* A read of a full circular buffer faulted in copy_to_user while a partial
\* write was pending.
C14_Witness ==
  \E p \in Procs :
    /\ TransferFault(p) /\ t[p].op = "pread"
    /\ t[p].snap.dev.circular_buffer.full
    /\ Len(t[p].snap.pend) > 0

\* A read call of caller p (at a named position or a sequential one) has
\* returned.
ReadReturned(p) == t[p].pc = "ret" /\ t[p].op \in {"read", "pread"}

C16_TeardownReleasesEverything ==
  Unloaded =>
    /\ DOMAIN heap.mem = {}
    /\ heap.err = {}
    /\ dev.partial_write_buffer = NULL
    /\ dev.partial_write_size = 0

\* The module was unloaded after a call had failed, with a full circular
\* buffer that had taken a caller's command and with a partial write
\* pending.
C16_Witness ==
  /\ Unloaded
  /\ nfaults > 0
  /\ CB.full /\ CB.in_offs # 0
  /\ Len(hist) > NPre + 1
  /\ TrailingChunks(hist) # <<>>

\* The call of caller p was turned down by the checks at the top of
\* aesd_read / aesd_write.
NullBuffer(p) == t[p].op # "none" /\ t[p].buf.kind = "null"
ZeroWrite(p) == t[p].op = "write" /\ t[p].buf.kind # "null" /\ t[p].count = 0

\* C17: a call with a NULL buffer returns -EFAULT and a write of zero bytes
\* from a buffer that is not NULL returns 0; such a call returns in its
\* first step, without ever waiting for or owning dev->lock, and that step
\* changes neither the device (lock, partial write, circular buffer) nor
\* the heap nor the accepted bytes.
C17_ArgumentsCheckedFirst ==
  /\ [](\A p \in Procs :
          /\ NullBuffer(p) =>
               t[p].pc = "ret" /\ t[p].retval = 0 - EFAULT /\ ~t[p].snap.taken
          /\ ZeroWrite(p) =>
               t[p].pc = "ret" /\ t[p].retval = 0 /\ ~t[p].snap.taken
          /\ (NullBuffer(p) \/ ZeroWrite(p)) => dev.lock # p)
  /\ [][\A p \in Procs :
          t[p].pc = "idle" /\ t'[p].pc # "idle" =>
            /\ dev' = dev /\ heap' = heap /\ hist' = hist
            /\ t'[p].pc = "ret" <=> (NullBuffer(p)' \/ ZeroWrite(p)')
            /\ t'[p].pc = "ret" => t'[p].out = <<>>]_vars

\* A write of zero bytes returned 0 while another caller, holding the lock,
\* was in the middle of adding a command.
C17_Witness ==
  \E p, q \in Procs :
    /\ ZeroWrite(p) /\ t[p].pc = "ret" /\ t[p].retval = 0
    /\ dev.lock = q /\ t[q].pc = "w_add"

\* The buffers the device refers to: the partial write and the slots.
SlotPtrs(d) ==
  {d.circular_buffer.entry[s].buffptr : s \in Slots} \ {NULL}
DevicePtrs(d) == SlotPtrs(d) \cup ({d.partial_write_buffer} \ {NULL})

\* The buffers a caller inside aesd_write holds in its locals.
LocalPtrs(p) ==
  {t[p].write_buffer, t[p].complete_buffer, t[p].new_partial_buffer} \ {NULL}

\* The lock's owner has freed a buffer whose pointer it replaces in its
\* next statement: the slot at in_offs (lines 175, 180) or the partial
\* write (lines 197, 203).
Replacing(p) == t[p].pc \in {"w_add", "w_pset"}

\* C18, amended: kfree is never given a released buffer, no released buffer
\* is read or written, and no copy leaves its buffer.  Outside the window in which
\* the lock's owner replaces a pointer whose buffer it has just freed,
\* every pointer of the device (partial write, slots) is an allocated
\* buffer, no two of them are the same buffer, and (unless an entry is just
\* being added) slots that hold no live entry are NULL.  Every allocated buffer is the device's or a local of
\* the lock's owner; with the lock free the allocated buffers are exactly
\* the device's (the copy of the chunk is gone on every way out of
\* aesd_write), and after the unload there is none (the slots then still
\* hold the pointers of the buffers the unload freed).
C18_BuffersReleasedOnce ==
  /\ heap.err = {}
  /\ \A p \in Procs : ~InCS(p) => LocalPtrs(p) = {}
  /\ ~Unloaded =>
       /\ DOMAIN heap.mem \subseteq
            DevicePtrs(dev) \cup UNION {LocalPtrs(p) : p \in Procs}
       /\ (\A p \in Procs : ~Replacing(p)) =>
            /\ DevicePtrs(dev) \subseteq DOMAIN heap.mem
            /\ \A s1, s2 \in Slots :
                 /\ CB.entry[s1].buffptr # NULL
                 /\ CB.entry[s1].buffptr \in
                      {CB.entry[s2].buffptr, dev.partial_write_buffer}
                 => s1 = s2 /\ CB.entry[s1].buffptr # dev.partial_write_buffer
            /\ (\A p \in Procs : t[p].pc # "w_adv") =>
                 \A s \in Slots :
                   s \notin {SlotOf(CB, k) : k \in 1..NumLive(CB)} =>
                     CB.entry[s].buffptr = NULL
       /\ dev.lock = NULL => DOMAIN heap.mem = DevicePtrs(dev)
  /\ Unloaded => DOMAIN heap.mem = {}

\* C18 as stated, read between critical sections: no slot and no partial
\* write pointer ever refers to a released buffer, the unload included.
C18_NoPointerToReleasedBufferEver ==
  (\A p \in Procs : ~InCS(p)) => DevicePtrs(dev) \subseteq DOMAIN heap.mem

\* With a full circular buffer that has evicted an entry for a caller's
\* command, a write has freed the old partial write and is about to put the
\* grown one in its place.
C18_Witness ==
  \E p \in Procs :
    /\ t[p].pc = "w_pset"
    /\ dev.partial_write_buffer # NULL
    /\ ~Live(heap, dev.partial_write_buffer)
    /\ CB.full /\ CB.in_offs # 0
    /\ Len(hist) > NPre + 1

\* C19: a caller that is not inside aesd_read / aesd_write, whatever its
\* last call returned (bytes, end of stream, -ENOMEM, -EFAULT,
\* -ERESTARTSYS), does not own dev->lock: the lock is owned only by a
\* caller between lock and unlock.  Under fair scheduling a caller waiting
\* for the lock eventually owns it or is interrupted.
C19_LockReleasedOnEveryExit ==
  /\ [](\A p \in Procs :
          /\ t[p].pc \in {"idle", "ret"} => dev.lock # p
          /\ dev.lock = p <=> InCS(p))
  /\ \A p \in Procs : Waiting(p) ~> (dev.lock = p \/ Interrupted(p))

\* A write has returned -ENOMEM while the other caller waits for the lock,
\* which is free again.
C19_Witness ==
  \E p, q \in Procs :
    /\ OutOfMemory(p)
    /\ Waiting(q)
    /\ dev.lock = NULL

\* Number of newlines in s.
CountNL(s) == Cardinality({i \in 1..Len(s) : s[i] = NL})

\* C20: except while the lock's owner is between freeing a buffer and
\* replacing its pointer (when the bytes in question are gone), the partial
\* write holds no newline and its size is the length of its buffer, and
\* every live entry is non-empty, of the size of its buffer, with exactly
\* one newline, its last byte.
C20_EntriesAreSingleCommands ==
  (\A p \in Procs : ~Replacing(p)) =>
    /\ CountNL(PendingBytes(dev, heap)) = 0
    /\ Poison \notin {PendingBytes(dev, heap)[i] :
                         i \in 1..dev.partial_write_size}
    /\ dev.partial_write_size > 0 <=> dev.partial_write_buffer # NULL
    /\ \A k \in 1..NumLive(CB) :
         LET e == LiveEntries(dev, heap)[k]
         IN  /\ CB.entry[SlotOf(CB, k)].size = Len(e)
             /\ Len(e) > 0
             /\ CountNL(e) = 1
             /\ e[Len(e)] = NL
             /\ Poison \notin {e[i] : i \in 1..Len(e)}

\* With a partial write pending, the newest entry of a wrapped circular
\* buffer is a command a caller completed on top of an earlier partial
\* write.
C20_Witness ==
  /\ dev.lock = NULL
  /\ dev.partial_write_size > 0
  /\ CB.full /\ CB.in_offs # 0
  /\ Len(LiveEntries(dev, heap)[NumLive(CB)]) > 2
  /\ \E i \in 1..Len(hist) :
       hist[i].p # 0 /\ FirstNL(hist[i].bytes) # 0

====
